---- MODULE Spec2Model ----
(***************************************************************************)
(* Model of the TravelJournal React component                              *)
(* (src/project/src/components/TravelJournal.tsx).                         *)
(*                                                                         *)
(* The component state (useState cells), the browser's localStorage, the   *)
(* outstanding fetchSuggestions promises and the outstanding FileReader    *)
(* reads are the state.  Every event handler is one action: React batches  *)
(* the setState calls of a handler and re-renders before the next event,   *)
(* so a handler always sees the state of the latest render.  The           *)
(* continuation after `await fetchSuggestions` and the FileReader          *)
(* onloadend callback are actions of their own, as is the useEffect that   *)
(* persists the entries.                                                   *)
(***************************************************************************)
EXTENDS Integers, Sequences, FiniteSets, TLC

(* ---------------------------- bounds ---------------------------------- *)
MaxEntries == 2      \* handleSubmit creates no entry beyond this length

(* ------------------------- input alphabets ---------------------------- *)
Null    == "<null>"  \* JavaScript null in a `string | null` cell
NullIdx == 0 - 1     \* JavaScript null in the `number | null` cell editIndex

Titles    == {"", "T1"}
Dates     == {"D1"}
NotesSet  == {""}
Videos    == {Null}
Typed     == {"", "abc"}             \* texts typed into the location box
Files     == {"f1"}
Emails    == {"a@x"}
Times     == {1}                     \* values Date.now() returns
Numbers   == 0..9                    \* numbers JSON.parse recognises

FormKeys  == {"title", "date", "location", "notes", "image", "video"}
KeyOrder  == <<"title", "date", "location", "notes", "image", "video", "id">>

VARIABLES
  isLoginPage, isSignUpPage,   \* useState, lines 45-46
  user,                        \* useState<User | null>: <<>> or <<[email]>>
  entries,                     \* useState(loadSavedEntries)
  newEntry,                    \* the form contents
  editMode, editIndex,         \* lines 64-65
  suggestions,                 \* line 66
  localStorage,                \* key -> <<>> (absent) or <<text>>
  effectPending,               \* the [entries] effect is scheduled, not run
  fetches,                     \* queries of the outstanding fetchSuggestions
  reads,                       \* outstanding FileReader reads: sets, so
                               \* identical outstanding requests are one
  \* history variables, written by the actions and read only by properties
  lastOp,                      \* the handler or callback that ran last, the
                               \* index it deleted, and whether the read it
                               \* completed was started for another form
  lastTyped,                   \* text of the latest handleLocationChange
                               \* since the form was reset (Null: none)
  editTarget                   \* current position of the entry chosen by
                               \* handleEditEntry (NullIdx: none or deleted)

vars == <<isLoginPage, isSignUpPage, user, entries, newEntry, editMode,
          editIndex, suggestions, localStorage, effectPending, fetches,
          reads, lastOp, lastTyped, editTarget>>

authVars == <<isLoginPage, isSignUpPage, user>>
formVars == <<newEntry, editMode, editIndex, suggestions>>
histVars == <<lastTyped, editTarget>>

\* history: the record of the handler or callback that ran last
Op(name) == [op |-> name, index |-> NullIdx, stale |-> FALSE]

(* ------------------------ JSON and localStorage ------------------------ *)
\* JSON.stringify of one property value: null, a number, or a quoted string
StringifyValue(k, v) ==
  IF k = "id" THEN ToString(v)
  ELSE IF v = Null THEN "null"
  ELSE "\"" \o v \o "\""

\* JSON.parse of one property value
ParseValue(k, t) ==
  IF t = "null" THEN Null
  ELSE IF SubSeq(t, 1, 1) = "\"" THEN SubSeq(t, 2, Len(t) - 1)
  ELSE CHOOSE n \in Numbers : ToString(n) = t

\* the keys of KeyOrder that object o owns, in order
RECURSIVE OwnKeys(_, _)
OwnKeys(o, i) ==
  IF i > Len(KeyOrder) THEN <<>>
  ELSE IF KeyOrder[i] \in DOMAIN o
       THEN <<KeyOrder[i]>> \o OwnKeys(o, i + 1)
       ELSE OwnKeys(o, i + 1)

\* JSON.stringify of one entry object: its members, as <<key, text>> pairs
StringifyObject(o) ==
  LET ks == OwnKeys(o, 1)
  IN  [i \in 1..Len(ks) |-> <<ks[i], StringifyValue(ks[i], o[ks[i]])>>]

\* JSON.stringify(entries), line 70
JSONstringify(es) == [i \in 1..Len(es) |-> StringifyObject(es[i])]

ParseObject(ms) ==
  [k \in {ms[i][1] : i \in 1..Len(ms)} |->
     LET i == CHOOSE j \in 1..Len(ms) : ms[j][1] = k
     IN  ParseValue(k, ms[i][2])]

\* JSON.parse(savedEntries), line 31
JSONparse(text) == [i \in 1..Len(text) |-> ParseObject(text[i])]

\* lines 28-34
loadSavedEntries(ls) ==
  LET savedEntries == ls["journalEntries"]
  IN  IF savedEntries # <<>> THEN JSONparse(savedEntries[1]) ELSE <<>>

\* lines 36-42; the stored user text is the user's email
loadSavedUser(ls) ==
  LET savedUser == ls["user"]
  IN  IF savedUser # <<>> THEN <<[email |-> savedUser[1]]>> ELSE <<>>

(* ----------------------------- helpers -------------------------------- *)
\* the initial value of newEntry, lines 56-63 (and resetForm, 133-140)
BlankEntry ==
  [title |-> "", date |-> "", location |-> "", notes |-> "",
   image |-> Null, video |-> Null]

\* the object spread { ...o, k: v }
Spread(o, k, v) == (k :> v) @@ o

\* fetchSuggestions, lines 17-25: what a successful call for `query` returns
Responses(query) ==
  { <<>>, <<[place_id |-> Len(query), description |-> query]>> }

\* reader.result of readAsDataURL(file), line 105
DataURL(file) == "data:" \o file

\* variant of RemoveAt with a defect: the position is taken to be 1-based
RemoveAtOneBased(es, index) ==
  LET keep == {i \in 1..Len(es) : i # index}
      F[n \in 0..Len(es)] ==
        IF n = 0 THEN <<>>
        ELSE IF n \in keep THEN Append(F[n - 1], es[n]) ELSE F[n - 1]
  IN  F[Len(es)]

\* Array.prototype.filter((_, i) => i !== index), lines 154-156 (0-based)
RemoveAt(es, index) ==
  LET keep == {i \in 1..Len(es) : i - 1 # index}
      F[n \in 0..Len(es)] ==
        IF n = 0 THEN <<>>
        ELSE IF n \in keep THEN Append(F[n - 1], es[n]) ELSE F[n - 1]
  IN  F[Len(es)]

\* entries.map((entry, index) => index === editIndex ? newEntry : entry)
ReplaceAt(es, index, e) ==
  [i \in 1..Len(es) |-> IF i - 1 = index THEN e ELSE es[i]]

\* a sequence without its i-th element
Without(s, i) == SubSeq(s, 1, i - 1) \o SubSeq(s, i + 1, Len(s))

\* line 223: which tree the component renders
View == IF user # <<>> THEN "main" ELSE "auth"

\* entries that a previous session can have stored
StoredEntry(t, id) ==
  [title |-> t, date |-> "D1", location |-> "abc", notes |-> "",
   image |-> Null, video |-> Null, id |-> id]

InitialLists ==
  { <<>>, <<StoredEntry("T1", 1)>> }

(* --------------------------- construction ------------------------------ *)
\* what AuthForm leaves under the "user" key before it calls onAuthSuccess
AuthFormStore(ls, email) == [ls EXCEPT !["user"] = <<email>>]

\* the state of a freshly mounted component over localStorage ls, lines 45-66;
\* the [entries] effect runs once after the first render
Mounted(ls) ==
  /\ isLoginPage = FALSE
  /\ isSignUpPage = FALSE
  /\ user = loadSavedUser(ls)
  /\ entries = loadSavedEntries(ls)
  /\ newEntry = BlankEntry
  /\ editMode = FALSE
  /\ editIndex = NullIdx
  /\ suggestions = <<>>
  /\ localStorage = ls
  /\ effectPending = TRUE
  /\ fetches = {}
  /\ reads = {}
  /\ lastOp = Op("mount")
  /\ lastTyped = Null
  /\ editTarget = NullIdx

Init ==
  \E je \in {<<>>} \cup {<<JSONstringify(l)>> : l \in InitialLists},
     u \in {<<>>} \cup {<<e>> : e \in Emails} :
    Mounted([journalEntries |-> je, user |-> u])

\* the page is reloaded: the component is constructed again over the current
\* localStorage; outstanding promises and readers die with the old page
Reload ==
  /\ ~effectPending
  /\ isLoginPage' = FALSE
  /\ isSignUpPage' = FALSE
  /\ user' = loadSavedUser(localStorage)
  /\ entries' = loadSavedEntries(localStorage)
  /\ newEntry' = BlankEntry
  /\ editMode' = FALSE
  /\ editIndex' = NullIdx
  /\ suggestions' = <<>>
  /\ effectPending' = TRUE
  /\ fetches' = {}
  /\ reads' = {}
  /\ lastOp' = Op("mount")
  /\ lastTyped' = Null
  /\ editTarget' = NullIdx
  /\ UNCHANGED localStorage

(* ------------------------- persistence effect -------------------------- *)
\* variant of PersistEffect with a defect: an empty list is not written
PersistEffectSkipEmpty ==
  /\ effectPending
  /\ localStorage' =
       IF entries = <<>> THEN localStorage
       ELSE [localStorage EXCEPT
               !["journalEntries"] = <<JSONstringify(entries)>>]
  /\ effectPending' = FALSE
  /\ lastOp' = Op("other")
  /\ UNCHANGED <<authVars, entries, formVars, fetches, reads, histVars>>

\* useEffect(..., [entries]), lines 68-72
PersistEffect ==
  /\ effectPending
  /\ localStorage' =
       [localStorage EXCEPT !["journalEntries"] = <<JSONstringify(entries)>>]
  /\ effectPending' = FALSE
  /\ lastOp' = Op("other")
  /\ UNCHANGED <<authVars, entries, formVars, fetches, reads, histVars>>

(* ----------------------------- auth form ------------------------------- *)
\* the user interacts only with what line 223 renders, and React has run the
\* effects of the previous event before the next event is handled
AuthShown == View = "auth" /\ ~effectPending
\* variant of MainShown with a defect: the main content is rendered without a user
MainShownAlways == ~effectPending
MainShown == View = "main" /\ ~effectPending

\* lines 181 and 187
OpenLogin ==
  /\ AuthShown /\ ~isLoginPage /\ ~isSignUpPage
  /\ isLoginPage' = TRUE
  /\ lastOp' = Op("other")
  /\ UNCHANGED <<isSignUpPage, user, entries, formVars, localStorage,
                 effectPending, fetches, reads, histVars>>

OpenSignUp ==
  /\ AuthShown /\ ~isLoginPage /\ ~isSignUpPage
  /\ isSignUpPage' = TRUE
  /\ lastOp' = Op("other")
  /\ UNCHANGED <<isLoginPage, user, entries, formVars, localStorage,
                 effectPending, fetches, reads, histVars>>

\* onClose, lines 172-175
CloseAuth ==
  /\ AuthShown /\ (isLoginPage \/ isSignUpPage)
  /\ isLoginPage' = FALSE
  /\ isSignUpPage' = FALSE
  /\ lastOp' = Op("other")
  /\ UNCHANGED <<user, entries, formVars, localStorage, effectPending,
                 fetches, reads, histVars>>

\* lines 80-82, called by AuthForm (rendered by lines 169-177)
handleAuthSuccess ==
  /\ AuthShown /\ (isLoginPage \/ isSignUpPage)
  /\ \E email \in Emails :
       /\ localStorage' = AuthFormStore(localStorage, email)
       /\ user' = <<[email |-> email]>>
  /\ lastOp' = Op("other")
  /\ UNCHANGED <<isLoginPage, isSignUpPage, entries, formVars, effectPending,
                 fetches, reads, histVars>>

\* lines 75-78
handleLogout ==
  /\ MainShown
  /\ localStorage' = [localStorage EXCEPT !["user"] = <<>>]
  /\ user' = <<>>
  /\ lastOp' = Op("logout")
  /\ UNCHANGED <<isLoginPage, isSignUpPage, entries, formVars, effectPending,
                 fetches, reads, histVars>>

(* ----------------------------- entry form ------------------------------ *)
\* history: every outstanding read now belongs to a form that is gone
Outdated(rs) == {[r EXCEPT !.stale = TRUE] : r \in rs}

\* EntryForm's inputs other than location: onEntryChange={setNewEntry},
\* line 207, called with the form contents and one field replaced
onEntryChange ==
  /\ MainShown
  /\ \E k \in {"title", "date", "notes", "video"} :
       \E v \in (CASE k = "title" -> Titles
                   [] k = "date"  -> Dates
                   [] k = "notes" -> NotesSet
                   [] OTHER       -> Videos) :
         newEntry' = Spread(newEntry, k, v)
  /\ lastOp' = Op("other")
  /\ UNCHANGED <<authVars, entries, editMode, editIndex, suggestions,
                 localStorage, effectPending, fetches, reads, histVars>>

\* lines 84-100, up to the await
handleLocationChange ==
  /\ MainShown
  /\ \E value \in Typed :
       /\ newEntry' = Spread(newEntry, "location", value)
       /\ lastTyped' = value
       /\ IF Len(value) > 2
          THEN /\ fetches' = fetches \cup {value}
               /\ UNCHANGED suggestions
          ELSE /\ suggestions' = <<>>
               /\ UNCHANGED fetches
  /\ lastOp' = Op("other")
  /\ UNCHANGED <<authVars, entries, editMode, editIndex, localStorage,
                 effectPending, reads, editTarget>>

\* lines 92-93: the promise of an outstanding fetch resolves
FetchResolved ==
  /\ ~effectPending
  /\ \E query \in fetches :
       \E response \in Responses(query) :
         /\ suggestions' = response
         /\ fetches' = fetches \ {query}
  /\ lastOp' = Op("other")
  /\ UNCHANGED <<authVars, entries, newEntry, editMode, editIndex,
                 localStorage, effectPending, reads, lastTyped, editTarget>>

\* lines 21-23 and 94-96: the fetch fails and the error is logged
FetchRejected ==
  /\ ~effectPending
  /\ \E query \in fetches : fetches' = fetches \ {query}
  /\ lastOp' = Op("fetchRejected")
  /\ UNCHANGED <<authVars, entries, formVars, localStorage, effectPending,
                 reads, histVars>>

\* lines 209-211
onSelectLocation ==
  /\ MainShown
  /\ \E i \in 1..Len(suggestions) :
       newEntry' = Spread(newEntry, "location", suggestions[i].description)
  /\ lastOp' = Op("other")
  /\ UNCHANGED <<authVars, entries, editMode, editIndex, suggestions,
                 localStorage, effectPending, fetches, reads, histVars>>

\* lines 102-109, up to readAsDataURL
handleImageUpload ==
  /\ MainShown
  /\ \E file \in Files :
       reads' = reads \cup {[file |-> file, stale |-> FALSE]}
  /\ lastOp' = Op("other")
  /\ UNCHANGED <<authVars, entries, formVars, localStorage, effectPending,
                 fetches, histVars>>

\* lines 104-107: onloadend fires when the read succeeded and when it
\* failed; reader.result is null after a failure
onloadend ==
  /\ ~effectPending
  /\ \E r \in reads :
       \E base64String \in {DataURL(r.file), Null} :
         /\ newEntry' = Spread(newEntry, "image", base64String)
         /\ lastOp' = [Op("onloadend") EXCEPT !.stale = r.stale]
         /\ reads' = reads \ {r}
  /\ UNCHANGED <<authVars, entries, editMode, editIndex, suggestions,
                 localStorage, effectPending, fetches, lastTyped, editTarget>>

\* variant of resetForm with a defect: editMode and editIndex are left as they were
resetFormKeepsEdit ==
  /\ newEntry' = BlankEntry
  /\ suggestions' = <<>>
  /\ UNCHANGED <<editMode, editIndex>>
  /\ editTarget' = NullIdx
  /\ reads' = Outdated(reads)
  /\ lastTyped' = Null

\* lines 132-144, with the history of a form that is gone
resetForm ==
  /\ newEntry' = BlankEntry
  /\ suggestions' = <<>>
  /\ editMode' = FALSE
  /\ editIndex' = NullIdx
  /\ editTarget' = NullIdx
  /\ reads' = Outdated(reads)
  /\ lastTyped' = Null

\* variant of Invalid with a defect: the location is not checked
InvalidNoLocation(e) == e.title = "" \/ e.date = ""

\* line 115
Invalid(e) == e.title = "" \/ e.date = "" \/ e.location = ""

\* lines 112-118: a required field is empty
SubmitRejected ==
  /\ MainShown
  /\ Invalid(newEntry)
  /\ lastOp' = Op("submitRejected")
  /\ UNCHANGED <<authVars, entries, formVars, localStorage, effectPending,
                 fetches, reads, histVars>>

\* lines 120-125 and 129
SubmitEdit ==
  /\ MainShown
  /\ ~Invalid(newEntry)
  /\ editMode /\ editIndex # NullIdx
  /\ entries' = ReplaceAt(entries, editIndex, newEntry)
  /\ effectPending' = TRUE
  /\ resetForm
  /\ lastOp' = Op("submitEdit")
  /\ UNCHANGED <<authVars, localStorage, fetches>>

\* variant of SubmitCreate with a defect: the new entry is put first
SubmitCreatePrepend ==
  /\ MainShown
  /\ ~Invalid(newEntry)
  /\ ~(editMode /\ editIndex # NullIdx)
  /\ Len(entries) < MaxEntries
  /\ \E now \in Times :
       entries' = <<Spread(newEntry, "id", now)>> \o entries
  /\ effectPending' = TRUE
  /\ resetForm
  /\ lastOp' = Op("submitCreate")
  /\ UNCHANGED <<authVars, localStorage, fetches>>

\* lines 126-129
SubmitCreate ==
  /\ MainShown
  /\ ~Invalid(newEntry)
  /\ ~(editMode /\ editIndex # NullIdx)
  /\ Len(entries) < MaxEntries
  /\ \E now \in Times : entries' = Append(entries, Spread(newEntry, "id", now))
  /\ effectPending' = TRUE
  /\ resetForm
  /\ lastOp' = Op("submitCreate")
  /\ UNCHANGED <<authVars, localStorage, fetches>>

handleSubmit == SubmitRejected \/ SubmitEdit \/ SubmitCreate

\* lines 146-150; EntryList offers the positions of the rendered entries
handleEditEntry ==
  /\ MainShown
  /\ \E index \in 0..(Len(entries) - 1) :
       /\ editMode' = TRUE
       /\ editIndex' = index
       /\ newEntry' = entries[index + 1]
       /\ editTarget' = index
  /\ reads' = Outdated(reads)
  /\ lastOp' = Op("other")
  /\ UNCHANGED <<authVars, entries, suggestions, localStorage, effectPending,
                 fetches, lastTyped>>

\* history: where the entry chosen for editing is after entry index is removed
Shifted(target, index) ==
  IF target = NullIdx \/ target = index THEN NullIdx
  ELSE IF index < target THEN target - 1 ELSE target

\* lines 152-159
handleDeleteEntry ==
  /\ MainShown
  /\ \E index \in 0..(Len(entries) - 1), confirm \in BOOLEAN :
       IF confirm
       THEN /\ entries' = RemoveAt(entries, index)
            /\ effectPending' = TRUE
            /\ editTarget' = Shifted(editTarget, index)
            /\ lastOp' = [Op("deleteConfirmed") EXCEPT !.index = index]
       ELSE /\ lastOp' = Op("deleteDeclined")
            /\ UNCHANGED <<entries, effectPending, editTarget>>
  /\ UNCHANGED <<authVars, formVars, localStorage, fetches, reads, lastTyped>>

(* --------------------------- specification ----------------------------- *)
Next ==
  \/ PersistEffect
  \/ Reload
  \/ OpenLogin
  \/ OpenSignUp
  \/ CloseAuth
  \/ handleAuthSuccess
  \/ handleLogout
  \/ onEntryChange
  \/ handleLocationChange
  \/ FetchResolved
  \/ FetchRejected
  \/ onSelectLocation
  \/ handleImageUpload
  \/ onloadend
  \/ handleSubmit
  \/ handleEditEntry
  \/ handleDeleteEntry

Spec == Init /\ [][Next]_vars

TypeOK ==
  /\ Len(entries) <= MaxEntries
  /\ editIndex \in NullIdx..(MaxEntries - 1)
  /\ fetches \subseteq Typed
  /\ reads \subseteq [file : Files, stale : BOOLEAN]

(* ------------------------------ claims --------------------------------- *)
SubmitOps == {"submitRejected", "submitEdit", "submitCreate"}

\* line 115, written out for the properties
RequiredMissing(e) == e.title = "" \/ e.date = "" \/ e.location = ""

\* C1: once the persistence effect has run for the latest change of entries,
\* the "journalEntries" key holds the serialization of the current entries
\* and loading it back yields the same entries in the same order.
C1_PersistedRoundTrip ==
  ~effectPending =>
    /\ localStorage["journalEntries"] # <<>>
    /\ localStorage["journalEntries"][1] = JSONstringify(entries)
    /\ loadSavedEntries(localStorage) = entries

C1_Witness ==
  /\ ~effectPending
  /\ Len(entries) = 2
  /\ \E i \in 1..Len(entries) : entries[i].image # Null
  /\ loadSavedEntries(localStorage) = entries

\* C2: while user is null the auth form is rendered and the entries do not
\* change; entries are created, edited and deleted only by an authenticated
\* user; after handleLogout user is null and the "user" key is absent.
C2_AuthGatesEntries ==
  [][ /\ (user = <<>> => View = "auth" /\ entries' = entries)
      /\ (lastOp'.op \in {"submitEdit", "submitCreate", "deleteConfirmed"}
            => user # <<>> /\ View = "main")
      /\ (lastOp'.op = "logout"
            => user' = <<>> /\ localStorage'["user"] = <<>>) ]_vars

C2_Witness ==
  /\ lastOp.op = "logout"
  /\ user = <<>>
  /\ localStorage["user"] = <<>>
  /\ Len(entries) > 0

\* C3: a handleSubmit with an empty title, date or location is rejected and
\* leaves entries, newEntry, editMode, editIndex and suggestions unchanged;
\* every entry of the list has a non-empty title, date and location.
C3_RequiredFields ==
  [][ /\ (lastOp'.op \in SubmitOps /\ RequiredMissing(newEntry))
            => /\ lastOp'.op = "submitRejected"
               /\ UNCHANGED <<entries, newEntry, editMode, editIndex,
                              suggestions>>
      /\ (lastOp'.op = "submitRejected" => RequiredMissing(newEntry))
      /\ \A i \in 1..Len(entries') : ~RequiredMissing(entries'[i]) ]_vars

C3_Witness ==
  /\ lastOp.op = "submitRejected"
  /\ editMode
  /\ RequiredMissing(newEntry)
  /\ Len(entries) > 0

\* C4: a valid handleSubmit outside edit mode appends exactly one entry, whose
\* fields are the form contents plus a new id; the entries that existed keep
\* their content and position.
C4_CreateAppends ==
  [][ (lastOp'.op \in SubmitOps /\ ~RequiredMissing(newEntry) /\ ~editMode)
        => /\ lastOp'.op = "submitCreate"
           /\ Len(entries') = Len(entries) + 1
           /\ SubSeq(entries', 1, Len(entries)) = entries
           /\ LET added == entries'[Len(entries')]
              IN  /\ DOMAIN added = FormKeys \cup {"id"}
                  /\ \A k \in FormKeys : added[k] = newEntry[k]
                  /\ added.id \in Times ]_vars

C4_Witness ==
  /\ lastOp.op = "submitCreate"
  /\ Len(entries) = 2
  /\ entries[2].image # Null

\* C5: the valid handleSubmit that follows handleEditEntry(i) replaces exactly
\* the entry that handleEditEntry loaded (wherever deletions of other entries
\* have moved it) with the form contents, keeps its id, and leaves the length
\* and every other entry unchanged.
C5_EditUpdatesChosenEntry ==
  [][ (lastOp'.op = "submitEdit" /\ editTarget # NullIdx)
        => /\ Len(entries') = Len(entries)
           /\ \A i \in 1..Len(entries) :
                entries'[i] = IF i = editTarget + 1 THEN newEntry
                              ELSE entries[i]
           /\ entries'[editTarget + 1].id = entries[editTarget + 1].id ]_vars

C7_SuggestionsFollowInput ==
  [][ /\ ((lastTyped' # Null /\ newEntry'.location = lastTyped'
             /\ Len(lastTyped') <= 2) => suggestions' = <<>>)
      /\ (lastOp'.op = "fetchRejected"
            => UNCHANGED <<authVars, entries, formVars, localStorage,
                           effectPending, reads>>) ]_vars

\* C8: after every successful handleSubmit the form is blank, suggestions is
\* empty, editMode is false and editIndex is null.
C8_SubmitResetsForm ==
  lastOp.op \in {"submitEdit", "submitCreate"} =>
    /\ newEntry = [title |-> "", date |-> "", location |-> "", notes |-> "",
                   image |-> Null, video |-> Null]
    /\ suggestions = <<>>
    /\ editMode = FALSE
    /\ editIndex = NullIdx

C8_Witness ==
  /\ lastOp.op = "submitEdit"
  /\ newEntry.title = ""
  /\ \E i \in 1..Len(entries) : entries[i].image # Null

\* C9: editMode is true exactly when editIndex is non-null, and in edit mode
\* editIndex is a position of the current entries list.
C9_EditIndexValid ==
  /\ editMode <=> editIndex # NullIdx
  /\ editMode => (0 <= editIndex /\ editIndex < Len(entries))

\* C10: the onloadend of a read writes the image only into the form that was
\* being composed when handleImageUpload started the read, and changes no
\* field of newEntry other than image.
C10_ImageGoesToItsForm ==
  [][ lastOp'.op = "onloadend"
        => /\ ~lastOp'.stale
           /\ DOMAIN newEntry' = DOMAIN newEntry
           /\ \A k \in DOMAIN newEntry \ {"image"} :
                newEntry'[k] = newEntry[k] ]_vars

====
